---- MODULE Spec2Model ----
(***************************************************************************)
(* Model of the Adventar gRPC service (src/grpc-server/service.go).        *)
(*                                                                         *)
(* The state is the relational store the service works on (the tables      *)
(* users, calendars and entries with their auto-increment counters), the   *)
(* year of the server's clock, and the RPC in the service: its name, its   *)
(* request and its response, from the step that handles it to the step     *)
(* that sends the response.  Every handler is one step: its statements run *)
(* one after the other with no other handler in between.  SpecConcurrent   *)
(* is the service with SignIn calls in flight at once, each a lookup and a *)
(* write with statements of other calls in between.                        *)
(*                                                                         *)
(* The collaborators are inputs: the verifier resolves a token to an       *)
(* identity (auth provider, auth UID) with a profile, the fetcher answers  *)
(* a url with an error or the page's metadata.  The schema is not among    *)
(* the sources: a table has the columns the statements name, ids are       *)
(* auto-increment (the handlers read LastInsertId) and are not used again  *)
(* after a delete, and no key but the id and no cascade is assumed.  The   *)
(* store itself does not fail: Prepare, Exec and Scan return an error only *)
(* for a query without a row.                                              *)
(***************************************************************************)
EXTENDS Integers, Sequences, FiniteSets, TLC

VARIABLES
  users,           \* rows of table users
  calendars,       \* rows of table calendars
  entries,         \* rows of table entries
  nextUserId,      \* the id the next insert into users gets
  nextCalendarId,  \* the id the next insert into calendars gets
  nextEntryId,     \* the id the next insert into entries gets
  now,             \* time.Now().Year()
  calls,           \* the number of RPCs handled so far
  signIns,         \* the SignIn calls between their lookup and their write
  op,              \* the RPC in the service, Idle when there is none
  req,             \* its request
  res              \* its response

vars == <<users, calendars, entries, nextUserId, nextCalendarId, nextEntryId,
          now, calls, signIns, op, req, res>>

db == <<users, calendars, entries, nextUserId, nextCalendarId, nextEntryId>>

(***************************************************************************)
(* Bounds of the model and input domains.                                  *)
(***************************************************************************)
\* The number of RPCs the service handles in a run.
MaxCalls == 5

\* What the verifier can resolve a token to: (auth provider, auth UID).
Idents == {[provider |-> "github", uid |-> "1"], [provider |-> "google", uid |-> "1"]}
\* A request without an authorization value in its metadata.
NoAuth == [provider |-> "", uid |-> ""]
Auths == Idents \cup {NoAuth}
\* The profiles (Name, IconURL) the verifier reports with an identity.
Profiles == {[Name |-> "n1", IconURL |-> "i1"], [Name |-> "n2", IconURL |-> "i2"]}
\* The names UpdateUser is asked to set.
Names == {"", "n1", "n3"}
Years == {2023, 2024}
\* Titles and descriptions are strings of characters, which like reads.
CalendarTexts == {[title |-> <<"a", "b">>, description |-> <<"c">>],
                  [title |-> <<"c">>, description |-> <<"c", "d">>]}
\* The queries of ListCalendars: none, a letter, and the one-character wildcard.
Queries == {<< >>, <<"d">>, <<"_">>}
PageSizes == {0, 1}
DayInputs == {0, 1, 25, 26}
Comments == {"c1"}
Urls == {"", "u1"}
\* What metaFetcher.Fetch answers: an error, or the page's SiteMeta.
FetchResults == {[ok |-> FALSE, Title |-> "", ImageURL |-> ""],
                 [ok |-> TRUE, Title |-> "T1", ImageURL |-> "I1"]}

\* The first and the last day CreateEntry accepts.
MinDay == 1
MaxDay == 25

(***************************************************************************)
(* The SQL statements of the handlers, as operators on the tables.         *)
(***************************************************************************)
\* The lookup of a user, had it left the provider out.
SelectUserByUid(a) == {u \in users : u.auth_uid = a.uid}

\* select ... from users where auth_provider = ? and auth_uid = ?
SelectUserByAuth(a) ==
  {u \in users : u.auth_provider = a.provider /\ u.auth_uid = a.uid}

\* select ... from calendars where id = ?
SelectCalendarById(T, id) == {c \in T : c.id = id}

\* select ... from entries where id = ?
SelectEntryById(T, id) == {e \in T : e.id = id}

\* insert into users (name, auth_uid, auth_provider, icon_url) values (?, ?, ?, ?)
InsertUser(id, name, a, icon) ==
  users \cup {[id |-> id, name |-> name, icon_url |-> icon,
               auth_provider |-> a.provider, auth_uid |-> a.uid]}

\* update users set icon_url = ? where id = ?
UpdateUserIcon(icon, id) ==
  {IF u.id = id THEN [u EXCEPT !.icon_url = icon] ELSE u : u \in users}

\* update users set name = ? where id = ?
UpdateUserName(name, id) ==
  {IF u.id = id THEN [u EXCEPT !.name = name] ELSE u : u \in users}

\* insert into calendars(user_id, title, description, year) values(?, ?, ?, ?)
InsertCalendar(id, uid, title, description, year) ==
  calendars \cup {[id |-> id, user_id |-> uid, title |-> title,
                   description |-> description, year |-> year]}

\* The update of a calendar, had it not been scoped to the owner.
UpdateCalendarRowsAnyUser(title, description, id, uid) ==
  {IF c.id = id THEN [c EXCEPT !.title = title, !.description = description]
                ELSE c : c \in calendars}

\* update calendars set title = ?, description = ? where id = ? and user_id = ?
UpdateCalendarRows(title, description, id, uid) ==
  {IF c.id = id /\ c.user_id = uid
     THEN [c EXCEPT !.title = title, !.description = description]
     ELSE c : c \in calendars}

\* delete from calendars where id = ? and user_id = ?
DeleteCalendarRows(id, uid) ==
  {c \in calendars : ~(c.id = id /\ c.user_id = uid)}

\* insert into entries(user_id, calendar_id, day, comment, url, title, image_url)
\*   values(?, ?, ?, '', '', '', '')
InsertEntry(id, uid, cid, day) ==
  entries \cup {[id |-> id, user_id |-> uid, calendar_id |-> cid, day |-> day,
                 comment |-> "", url |-> "", title |-> "", image_url |-> ""]}

\* The first update of UpdateEntry, had it left the url out.
UpdateEntryCommentOnly(T, comment, url, id, uid) ==
  {IF e.id = id /\ e.user_id = uid THEN [e EXCEPT !.comment = comment] ELSE e :
     e \in T}

\* update entries set comment = ?, url = ? where id = ? and user_id = ?
UpdateEntryCommentUrl(T, comment, url, id, uid) ==
  {IF e.id = id /\ e.user_id = uid
     THEN [e EXCEPT !.comment = comment, !.url = url]
     ELSE e : e \in T}

\* The second update of UpdateEntry, had it not been scoped to the creator.
UpdateEntryMetaAnyUser(T, title, image, id, uid) ==
  {IF e.id = id THEN [e EXCEPT !.title = title, !.image_url = image] ELSE e :
     e \in T}

\* update entries set title = ?, image_url = ? where id = ? and user_id = ?
UpdateEntryMeta(T, title, image, id, uid) ==
  {IF e.id = id /\ e.user_id = uid
     THEN [e EXCEPT !.title = title, !.image_url = image]
     ELSE e : e \in T}

\* The delete of an entry, had it not been scoped to the creator.
DeleteEntryRowsAnyUser(id, uid) == {e \in entries : e.id # id}

\* delete from entries where id = ? and user_id = ?
DeleteEntryRows(id, uid) ==
  {e \in entries : ~(e.id = id /\ e.user_id = uid)}

\* The validation of the day with its upper bound one too far.
InvalidDayOffByOne(day) == day < MinDay \/ day > MaxDay + 1

\* The validation of the day in CreateEntry.
InvalidDay(day) == day < MinDay \/ day > MaxDay

\* The pb.Calendar that CreateCalendar and UpdateCalendar return.
PbCalendar(c) ==
  [id |-> c.id, title |-> c.title, description |-> c.description, year |-> c.year]

\* The pb.Entry that UpdateEntry returns.
PbEntry(id, e) ==
  [id |-> id, comment |-> e.comment, url |-> e.url, title |-> e.title,
   image_url |-> e.image_url]

\* getCurrentUser, had it not looked at the error of the lookup: without a row
\* the user it returns is the zero value.
GetCurrentUserZeroValue(auth) ==
  IF auth = NoAuth THEN {[err |-> "NoAuthorization"]}
  ELSE IF SelectUserByAuth(auth) = {}
    THEN {[err |-> "ok", user |-> [id |-> 0, name |-> "", icon_url |-> ""]]}
  ELSE {[err |-> "ok", user |-> u] : u \in SelectUserByAuth(auth)}

\* getCurrentUser: what it can return for a request whose authorization value
\* the verifier resolves to auth (NoAuth: the request has none). QueryRow scans
\* the first row the store finds.
GetCurrentUser(auth) ==
  IF auth = NoAuth THEN {[err |-> "NoAuthorization"]}
  ELSE IF SelectUserByAuth(auth) = {} THEN {[err |-> "NoRows"]}
  ELSE {[err |-> "ok", user |-> u] : u \in SelectUserByAuth(auth)}

\* No RPC is being handled.
Idle == "idle"
NoRequest == [auth |-> NoAuth]
NoResponse == [err |-> "none"]

Init ==
  /\ users = {}
  /\ calendars = {}
  /\ entries = {}
  /\ nextUserId = 1
  /\ nextCalendarId = 1
  /\ nextEntryId = 1
  /\ now = 2023
  /\ calls = 0
  /\ signIns = {}
  /\ op = Idle
  /\ req = NoRequest
  /\ res = NoResponse

\* The service takes up an RPC: none is being handled, and the run has calls left.
Handle ==
  /\ op = Idle
  /\ calls < MaxCalls
  /\ calls' = calls + 1
  /\ UNCHANGED signIns

\* A handler that returns err without having written anything.
Fail(name, request, err) ==
  /\ op' = name
  /\ req' = request
  /\ res' = [err |-> err]
  /\ UNCHANGED <<db, now>>

\* The server's clock passes into the next year.
NewYear ==
  /\ op = Idle
  /\ now + 1 \in Years
  /\ now' = now + 1
  /\ UNCHANGED <<db, calls, signIns, op, req, res>>

\* The response of the handled RPC goes out: no RPC is in the service.
Respond ==
  /\ op # Idle
  /\ op' = Idle
  /\ req' = NoRequest
  /\ res' = NoResponse
  /\ UNCHANGED <<db, now, calls, signIns>>

(***************************************************************************)
(* Identity and user operations.                                           *)
(***************************************************************************)
\* SignIn: the verifier resolves the token to (a, name, icon).
\* SignIn writing the verifier's name into the row it finds as well.
SignInRenames(a, name, icon) ==
  /\ Handle
  /\ op' = "SignIn"
  /\ req' = [auth |-> a, name |-> name, icon |-> icon]
  /\ res' = [err |-> "ok"]
  /\ IF SelectUserByAuth(a) = {}
       THEN /\ users' = InsertUser(nextUserId, name, a, icon)
            /\ nextUserId' = nextUserId + 1
       ELSE /\ \E u \in SelectUserByAuth(a) :
                 users' = {IF r.id = u.id
                             THEN [r EXCEPT !.icon_url = icon, !.name = name]
                             ELSE r : r \in users}
            /\ UNCHANGED nextUserId
  /\ UNCHANGED <<calendars, entries, nextCalendarId, nextEntryId, now>>

SignIn(a, name, icon) ==
  /\ Handle
  /\ op' = "SignIn"
  /\ req' = [auth |-> a, name |-> name, icon |-> icon]
  /\ res' = [err |-> "ok"]
  /\ IF SelectUserByAuth(a) = {}
       THEN /\ users' = InsertUser(nextUserId, name, a, icon)
            /\ nextUserId' = nextUserId + 1
       ELSE /\ \E u \in SelectUserByAuth(a) : users' = UpdateUserIcon(icon, u.id)
            /\ UNCHANGED nextUserId
  /\ UNCHANGED <<calendars, entries, nextCalendarId, nextEntryId, now>>

UpdateUser(auth, name) ==
  /\ Handle
  /\ LET request == [auth |-> auth, name |-> name] IN
       \E cur \in GetCurrentUser(auth) :
       IF cur.err # "ok" THEN Fail("UpdateUser", request, cur.err)
       ELSE IF name = "" THEN Fail("UpdateUser", request, "BlankName")
       ELSE LET cu == cur.user IN
              /\ users' = UpdateUserName(name, cu.id)
              /\ op' = "UpdateUser"
              /\ req' = request
              /\ res' = [err |-> "ok", user |-> [id |-> cu.id, name |-> name]]
              /\ UNCHANGED <<calendars, entries, nextUserId, nextCalendarId,
                             nextEntryId, now>>

(***************************************************************************)
(* Calendar operations.                                                    *)
(***************************************************************************)
CreateCalendar(auth, text) ==
  /\ Handle
  /\ LET request == [auth |-> auth, title |-> text.title,
                       description |-> text.description] IN
       \E cur \in GetCurrentUser(auth) :
       IF cur.err # "ok" THEN Fail("CreateCalendar", request, cur.err)
       ELSE LET cu == cur.user IN
              /\ calendars' = InsertCalendar(nextCalendarId, cu.id, text.title,
                                             text.description, now)
              /\ nextCalendarId' = nextCalendarId + 1
              /\ op' = "CreateCalendar"
              /\ req' = request
              /\ \E c \in SelectCalendarById(calendars', nextCalendarId) :
                   res' = [err |-> "ok", calendar |-> PbCalendar(c)]
              /\ UNCHANGED <<users, entries, nextUserId, nextEntryId, now>>

UpdateCalendar(auth, id, text) ==
  /\ Handle
  /\ LET request == [auth |-> auth, id |-> id, title |-> text.title,
                       description |-> text.description] IN
       \E cur \in GetCurrentUser(auth) :
       IF cur.err # "ok" THEN Fail("UpdateCalendar", request, cur.err)
       ELSE LET cu == cur.user IN
              /\ calendars' = UpdateCalendarRows(text.title, text.description, id, cu.id)
              /\ op' = "UpdateCalendar"
              /\ req' = request
              /\ IF SelectCalendarById(calendars', id) = {}
                   THEN res' = [err |-> "NoRows"]
                   ELSE \E c \in SelectCalendarById(calendars', id) :
                          res' = [err |-> "ok", calendar |-> PbCalendar(c)]
              /\ UNCHANGED <<users, entries, nextUserId, nextCalendarId, nextEntryId, now>>

\* DeleteCalendar does not look at the error of getCurrentUser: without a current
\* user, reading currentUser.ID is a nil dereference and the handler panics
\* before the delete statement runs.
DeleteCalendar(auth, id) ==
  /\ Handle
  /\ LET request == [auth |-> auth, id |-> id] IN
       \E cur \in GetCurrentUser(auth) :
       IF cur.err # "ok" THEN Fail("DeleteCalendar", request, "panic")
       ELSE LET cu == cur.user IN
              /\ calendars' = DeleteCalendarRows(id, cu.id)
              /\ op' = "DeleteCalendar"
              /\ req' = request
              /\ res' = [err |-> "ok"]
              /\ UNCHANGED <<users, entries, nextUserId, nextCalendarId, nextEntryId, now>>

(***************************************************************************)
(* Entry operations.                                                       *)
(***************************************************************************)
\* The result of CreateEntry's re-read, which selects from calendars by the id
\* of the entry just inserted.
CreateEntryReread(lastID) ==
  IF SelectCalendarById(calendars, lastID) = {}
    THEN {[err |-> "NoRows"]}
    ELSE {[err |-> "ok", entry |-> [id |-> c.id]] :
            c \in SelectCalendarById(calendars, lastID)}

CreateEntry(auth, cid, day) ==
  /\ Handle
  /\ LET request == [auth |-> auth, calendarId |-> cid, day |-> day] IN
       \E cur \in GetCurrentUser(auth) :
       IF cur.err # "ok" THEN Fail("CreateEntry", request, cur.err)
       ELSE IF SelectCalendarById(calendars, cid) = {}
         THEN Fail("CreateEntry", request, "NoRows")
       ELSE IF InvalidDay(day) THEN Fail("CreateEntry", request, "InvalidDay")
       ELSE LET cu == cur.user IN
              /\ entries' = InsertEntry(nextEntryId, cu.id, cid, day)
              /\ nextEntryId' = nextEntryId + 1
              /\ op' = "CreateEntry"
              /\ req' = request
              /\ res' \in CreateEntryReread(nextEntryId)
              /\ UNCHANGED <<users, calendars, nextUserId, nextCalendarId, now>>

\* fetch is what metaFetcher.Fetch answers, should the handler call it.
UpdateEntry(auth, id, comment, url, fetch) ==
  /\ Handle
  /\ LET request == [auth |-> auth, id |-> id, comment |-> comment, url |-> url] IN
       \E cur \in GetCurrentUser(auth) :
       IF cur.err # "ok" THEN Fail("UpdateEntry", request, cur.err)
       ELSE LET cu == cur.user IN
              LET e1 == UpdateEntryCommentUrl(entries, comment, url, id, cu.id)
                  e2 == IF url # ""
                          THEN UpdateEntryMeta(e1, fetch.Title, fetch.ImageURL, id, cu.id)
                          ELSE e1
              IN /\ op' = "UpdateEntry"
                 /\ req' = request
                 /\ IF url # "" /\ ~fetch.ok
                      THEN /\ entries' = e1
                           /\ res' = [err |-> "FetchError"]
                      ELSE /\ entries' = e2
                           /\ IF SelectEntryById(e2, id) = {}
                                THEN res' = [err |-> "NoRows"]
                                ELSE \E e \in SelectEntryById(e2, id) :
                                       res' = [err |-> "ok", entry |-> PbEntry(id, e)]
                 /\ UNCHANGED <<users, calendars, nextUserId, nextCalendarId,
                                nextEntryId, now>>

DeleteEntry(auth, id) ==
  /\ Handle
  /\ LET request == [auth |-> auth, id |-> id] IN
       \E cur \in GetCurrentUser(auth) :
       IF cur.err # "ok" THEN Fail("DeleteEntry", request, cur.err)
       ELSE LET cu == cur.user IN
              /\ entries' = DeleteEntryRows(id, cu.id)
              /\ op' = "DeleteEntry"
              /\ req' = request
              /\ res' = [err |-> "ok"]
              /\ UNCHANGED <<users, calendars, nextUserId, nextCalendarId,
                             nextEntryId, now>>

\* The rows of ListEntries' query: entries joined with their user and their
\* calendar, of user userId, and of year `year` unless it is 0.
ListEntriesRows(userId, year) ==
  {[id |-> e.id, day |-> e.day, title |-> e.title, comment |-> e.comment,
    url |-> e.url, image_url |-> e.image_url,
    calendar |-> [id |-> c.id, title |-> c.title, description |-> c.description],
    owner |-> [id |-> u.id, name |-> u.name, icon_url |-> u.icon_url]] :
     <<e, u, c>> \in {t \in entries \X users \X calendars :
                        /\ t[2].id = t[1].user_id
                        /\ t[3].id = t[1].calendar_id
                        /\ t[1].user_id = userId
                        /\ (year # 0 => t[3].year = year)}}

\* order by day: every order of the rows in which day never decreases (the
\* store is free in the order of rows of the same day).
OrderByDay(rows) ==
  {s \in [1..Cardinality(rows) -> rows] :
     /\ \A i, j \in DOMAIN s : i # j => s[i] # s[j]
     /\ \A i, j \in DOMAIN s : i < j => s[i].day <= s[j].day}

ListEntries(userId, year) ==
  /\ Handle
  /\ op' = "ListEntries"
  /\ req' = [auth |-> NoAuth, userId |-> userId, year |-> year]
  /\ \E s \in OrderByDay(ListEntriesRows(userId, year)) :
       res' = [err |-> "ok", entries |-> s]
  /\ UNCHANGED <<db, now>>

(***************************************************************************)
(* ListCalendars.                                                          *)
(***************************************************************************)
\* text like pattern, as the store evaluates it: % stands for any string and _
\* for any one character.
RECURSIVE Like(_, _)
Like(text, pattern) ==
  IF pattern = << >> THEN text = << >>
  ELSE IF Head(pattern) = "%"
    THEN Like(text, Tail(pattern)) \/ (text # << >> /\ Like(Tail(text), pattern))
  ELSE /\ text # << >>
       /\ Head(pattern) = "_" \/ Head(pattern) = Head(text)
       /\ Like(Tail(text), Tail(pattern))

\* The rows of ListCalendars' query: calendars of the year joined with their
\* owner, of user userId unless it is 0, and with a title or description like
\* %query% unless the query is empty.
ListCalendarsRows(year, userId, query) ==
  {[id |-> c.id, title |-> c.title, description |-> c.description,
    year |-> c.year, entryCount |-> 0,
    owner |-> [id |-> u.id, name |-> u.name, icon_url |-> u.icon_url]] :
     <<c, u>> \in {t \in calendars \X users :
                     /\ t[2].id = t[1].user_id
                     /\ t[1].year = year
                     /\ userId # 0 => t[1].user_id = userId
                     /\ query # << >> =>
                          \/ Like(t[1].title, <<"%">> \o query \o <<"%">>)
                          \/ Like(t[1].description, <<"%">> \o query \o <<"%">>)}}

\* order by c.id desc
RECURSIVE OrderByIdDesc(_)
OrderByIdDesc(rows) ==
  IF rows = {} THEN << >>
  ELSE LET top == CHOOSE r \in rows : \A q \in rows : q.id <= r.id
       IN <<top>> \o OrderByIdDesc(rows \ {top})

\* limit ?, when the page size is not 0
Limit(rows, pageSize) ==
  IF pageSize # 0 /\ pageSize < Len(rows) THEN SubSeq(rows, 1, pageSize) ELSE rows

\* select calendar_id, count(*) from entries where calendar_id in (ids)
\*   group by calendar_id
SelectEntryCounts(ids) ==
  {[calendar_id |-> cid,
    count |-> Cardinality({e \in entries : e.calendar_id = cid})] :
     cid \in {e.calendar_id : e \in {x \in entries : x.calendar_id \in ids}}}

\* bindEntryCount giving every calendar the number of all entry rows.
BindEntryCountOfAll(cals) ==
  [i \in DOMAIN cals |-> [cals[i] EXCEPT !.entryCount = Cardinality(entries)]]

\* bindEntryCount: the count of each calendar from the rows of the count query,
\* 0 for a calendar without a row.
BindEntryCount(cals) ==
  LET counts == SelectEntryCounts({cals[i].id : i \in DOMAIN cals})
      EntryCount(cid) ==
        IF \E r \in counts : r.calendar_id = cid
          THEN (CHOOSE r \in counts : r.calendar_id = cid).count
          ELSE 0
  IN [i \in DOMAIN cals |-> [cals[i] EXCEPT !.entryCount = EntryCount(cals[i].id)]]

\* The response holds the calendars and the number of queries the handler ran.
ListCalendars(year, userId, query, pageSize) ==
  /\ Handle
  /\ op' = "ListCalendars"
  /\ req' = [auth |-> NoAuth, year |-> year, userId |-> userId, query |-> query,
             pageSize |-> pageSize]
  /\ LET cals == Limit(OrderByIdDesc(ListCalendarsRows(year, userId, query)),
                       pageSize)
     IN IF Len(cals) # 0
          THEN res' = [err |-> "ok", calendars |-> BindEntryCount(cals),
                       queries |-> 2]
          ELSE res' = [err |-> "ok", calendars |-> cals, queries |-> 1]
  /\ UNCHANGED <<db, now>>

\* The owners ListCalendars is asked for: 0 is any.
OwnerInputs == {0, 1}

\* Ids a request can name: those handed out so far and the next, unused, one.
UserIdInputs == 1..nextUserId
CalendarIdInputs == 1..nextCalendarId
EntryIdInputs == 1..nextEntryId
YearInputs == Years \cup {0}

Next ==
  \/ NewYear
  \/ Respond
  \/ \E year \in Years, userId \in OwnerInputs, query \in Queries,
        pageSize \in PageSizes : ListCalendars(year, userId, query, pageSize)
  \/ \E a \in Idents, p \in Profiles : SignIn(a, p.Name, p.IconURL)
  \/ \E auth \in Auths, name \in Names : UpdateUser(auth, name)
  \/ \E auth \in Auths, text \in CalendarTexts : CreateCalendar(auth, text)
  \/ \E auth \in Auths, id \in CalendarIdInputs, text \in CalendarTexts :
       UpdateCalendar(auth, id, text)
  \/ \E auth \in Auths, id \in CalendarIdInputs : DeleteCalendar(auth, id)
  \/ \E auth \in Auths, cid \in CalendarIdInputs, day \in DayInputs :
       CreateEntry(auth, cid, day)
  \/ \E auth \in Auths, id \in EntryIdInputs, comment \in Comments, url \in Urls,
        fetch \in FetchResults : UpdateEntry(auth, id, comment, url, fetch)
  \/ \E auth \in Auths, id \in EntryIdInputs : DeleteEntry(auth, id)
  \/ \E userId \in UserIdInputs, year \in YearInputs : ListEntries(userId, year)

Spec == Init /\ [][Next]_vars

(***************************************************************************)
(* The claims.  A step of a handler leads from the idle service, whose     *)
(* tables are those before the call, to the state that holds the call's    *)
(* request and response and the tables after it.                           *)
(***************************************************************************)
\* The user rows of identity a.
UsersOf(a) == {u \in users : u.auth_provider = a.provider /\ u.auth_uid = a.uid}

\* The request carries an authorization value whose identity has a user row.
Authenticated(a) == a # NoAuth /\ UsersOf(a) # {}

CalendarExists(id) == \E c \in calendars : c.id = id

\* The step is a CreateEntry of an authenticated caller with a day outside 1..25.
C1_Case ==
  /\ op' = "CreateEntry"
  /\ Authenticated(req'.auth)
  /\ (req'.day < 1 \/ req'.day > 25)

\* C1 as stated: for every authenticated caller and every day outside 1..25,
\* CreateEntry fails with the invalid-day error and the entries table is the same
\* after the call as before it.
C1_AsStated ==
  [][C1_Case => res'.err = "InvalidDay" /\ entries' = entries]_vars

\* C1, amended: for every authenticated caller and every day outside 1..25,
\* CreateEntry fails and writes no row; it fails with the invalid-day error when
\* the calendar exists, and with the no-rows error of the calendar lookup, which
\* comes first, when it does not.
C1_InvalidDayWritesNoRow ==
  [][C1_Case =>
       /\ entries' = entries /\ nextEntryId' = nextEntryId
       /\ res'.err = (IF CalendarExists(req'.calendarId) THEN "InvalidDay"
                                                        ELSE "NoRows")]_vars

\* A CreateEntry with day 26 on an existing calendar that has an entry failed.
C1_Witness ==
  /\ op = "CreateEntry" /\ req.day = 26 /\ res.err = "InvalidDay"
  /\ \E e \in entries : e.calendar_id = req.calendarId

\* The step is an UpdateEntry with a url whose metadata fetch failed.
C2_Case == op' = "UpdateEntry" /\ req'.url # "" /\ res'.err = "FetchError"

\* C2 as stated: when the metadata fetch of an UpdateEntry with a non-empty url
\* fails, the call returns an error and comment, url, title and image_url of the
\* entry are the same after the call as before it.
C2_AsStated == [][C2_Case => entries' = entries]_vars

\* C2, amended: when the metadata fetch fails, the call returns an error and no
\* entry's title or image_url changes, but the first update is not undone: the
\* entry of the request, when the caller created it, has the request's comment
\* and url; every other entry is as before.
C2_FetchFailureKeepsFirstUpdate ==
  [][C2_Case =>
       entries' =
         {IF e.id = req'.id /\ (\E u \in UsersOf(req'.auth) : u.id = e.user_id)
            THEN [e EXCEPT !.comment = req'.comment, !.url = req'.url]
            ELSE e : e \in entries}]_vars

\* After a failed fetch the creator's entry has the new url and no title.
C2_Witness ==
  /\ op = "UpdateEntry" /\ res.err = "FetchError"
  /\ \E e \in entries :
       /\ e.id = req.id /\ e.url = req.url /\ e.comment = req.comment
       /\ e.title = "" /\ e.image_url = ""

\* C3: a CreateEntry of an authenticated caller on an existing calendar with a
\* day in 1..25 inserts exactly one row (the caller's, of that calendar and day,
\* its texts empty) and succeeds, returning the id of the inserted entry.
C3_CreateEntryReturnsNewId ==
  [][(/\ op' = "CreateEntry"
      /\ Authenticated(req'.auth)
      /\ CalendarExists(req'.calendarId)
      /\ req'.day >= 1 /\ req'.day <= 25)
     => /\ \E u \in UsersOf(req'.auth) :
             entries' = entries \cup
               {[id |-> nextEntryId, user_id |-> u.id,
                 calendar_id |-> req'.calendarId, day |-> req'.day,
                 comment |-> "", url |-> "", title |-> "", image_url |-> ""]}
        /\ Cardinality(entries') = Cardinality(entries) + 1
        /\ res'.err = "ok"
        /\ res'.entry.id = nextEntryId]_vars

\* C4: a DeleteCalendar whose request has no authorization value, or whose
\* identity has no user row, ends with an error status and deletes no calendar.
C4_DeleteCalendarNeedsCaller ==
  [][(op' = "DeleteCalendar" /\ ~Authenticated(req'.auth))
     => /\ res'.err \in {"NoAuthorization", "NoRows"}
        /\ calendars' = calendars]_vars

\* The rows an owner-scoped operation names: calendars or entries of that id.
TargetRows(o, id) ==
  IF o \in {"UpdateCalendar", "DeleteCalendar"}
    THEN {c \in calendars : c.id = id}
    ELSE {e \in entries : e.id = id}

\* The step is an owner-scoped operation (UpdateEntry with an empty url) of an
\* authenticated caller on a target that does not exist or is someone else's.
C5_Case ==
  /\ op' \in {"UpdateCalendar", "DeleteCalendar", "UpdateEntry", "DeleteEntry"}
  /\ (op' = "UpdateEntry" => req'.url = "")
  /\ Authenticated(req'.auth)
  /\ \A r \in TargetRows(op', req'.id) :
       \A u \in UsersOf(req'.auth) : r.user_id # u.id

\* C5 as stated: a target that does not exist gives the same outcome as a target
\* of someone else, a response without error and no row affected.
C5_AsStated == [][C5_Case => res'.err = "ok" /\ db' = db]_vars

\* C5, amended: in both cases no row is affected; DeleteCalendar and DeleteEntry
\* answer both with an empty success, but UpdateCalendar and UpdateEntry answer
\* a target of someone else with its unchanged row and a target that does not
\* exist with the no-rows error of their re-read.
C5_MismatchAffectsNoRow ==
  [][C5_Case =>
       /\ db' = db
       /\ IF op' \in {"DeleteCalendar", "DeleteEntry"}
            THEN res' = [err |-> "ok"]
            ELSE IF TargetRows(op', req'.id) = {}
              THEN res' = [err |-> "NoRows"]
              ELSE /\ res'.err = "ok"
                   /\ \E r \in TargetRows(op', req'.id) :
                        IF op' = "UpdateCalendar"
                          THEN res'.calendar =
                                 [id |-> r.id, title |-> r.title,
                                  description |-> r.description, year |-> r.year]
                          ELSE res'.entry =
                                 [id |-> r.id, comment |-> r.comment, url |-> r.url,
                                  title |-> r.title, image_url |-> r.image_url]]_vars

\* An UpdateEntry with an empty url of an authenticated caller named an entry
\* that does not exist, while another entry does, and got the no-rows error.
C5_Witness ==
  /\ op = "UpdateEntry" /\ req.url = "" /\ res.err = "NoRows"
  /\ Authenticated(req.auth)
  /\ entries # {}
  /\ \A e \in entries : e.id # req.id

\* The step is an UpdateCalendar or DeleteCalendar of an authenticated caller on
\* calendar c, which is not the caller's.
C6_Case(c) ==
  /\ op' \in {"UpdateCalendar", "DeleteCalendar"}
  /\ Authenticated(req'.auth)
  /\ c.id = req'.id
  /\ \A u \in UsersOf(req'.auth) : c.user_id # u.id

\* C6: an UpdateCalendar or DeleteCalendar of an authenticated user on an
\* existing calendar of someone else changes and deletes no calendar row and
\* returns without error: UpdateCalendar the unchanged title, description and
\* year of the calendar, DeleteCalendar an empty success.
C6_NonOwnerChangesNothing ==
  [][\A c \in calendars :
       C6_Case(c) =>
         /\ calendars' = calendars
         /\ res'.err = "ok"
         /\ op' = "UpdateCalendar" =>
              res'.calendar = [id |-> c.id, title |-> c.title,
                               description |-> c.description, year |-> c.year]
         /\ op' = "DeleteCalendar" => res' = [err |-> "ok"]]_vars

\* A non-owner's UpdateCalendar with another title returned the old title.
C6_Witness ==
  /\ op = "UpdateCalendar" /\ res.err = "ok"
  /\ Authenticated(req.auth)
  /\ res.calendar.title # req.title
  /\ \E c \in calendars :
       /\ c.id = req.id
       /\ \A u \in UsersOf(req.auth) : c.user_id # u.id

\* The user rows of identity a in the users table T.
UsersOfIn(T, a) == {u \in T : u.auth_provider = a.provider /\ u.auth_uid = a.uid}

\* C7: after a SignIn there is exactly one user row of its identity, with the
\* icon of this call; a SignIn of an identity that has signed in before (its row
\* exists) adds no row and keeps the row's id.
C7_SignInIdempotent ==
  [][op' = "SignIn" =>
       /\ Cardinality(UsersOfIn(users', req'.auth)) = 1
       /\ \A v \in UsersOfIn(users', req'.auth) : v.icon_url = req'.icon
       /\ UsersOf(req'.auth) # {} =>
            /\ Cardinality(users') = Cardinality(users)
            /\ {v.id : v \in UsersOfIn(users', req'.auth)} =
                 {u.id : u \in UsersOf(req'.auth)}]_vars

\* A later SignIn of an identity: its row holds this call's icon, and a name
\* that is not this call's.
C7_Witness ==
  /\ op = "SignIn"
  /\ \E u \in UsersOf(req.auth) : u.icon_url = req.icon /\ u.name # req.name

\* C8: CreateCalendar, UpdateCalendar, CreateEntry, UpdateEntry, DeleteEntry and
\* UpdateUser fail when the request has no authorization value or its identity
\* has no user row; no user row is made and no table changes.
C8_NoCallerNoChange ==
  [][(/\ op' \in {"CreateCalendar", "UpdateCalendar", "CreateEntry",
                  "UpdateEntry", "DeleteEntry", "UpdateUser"}
      /\ ~Authenticated(req'.auth))
     => /\ res' = [err |-> IF req'.auth = NoAuth THEN "NoAuthorization"
                                                 ELSE "NoRows"]
        /\ db' = db]_vars

\* A CreateEntry with a valid day on an existing calendar, of an identity that
\* never signed in, failed.
C8_Witness ==
  /\ op = "CreateEntry" /\ res.err = "NoRows"
  /\ req.auth # NoAuth /\ UsersOf(req.auth) = {}
  /\ CalendarExists(req.calendarId)
  /\ req.day >= 1 /\ req.day <= 25

\* C9: an UpdateEntry or DeleteEntry of an authenticated user leaves every entry
\* that this user did not create in the table, with all its fields as before.
C9_OnlyCreatorChangesEntry ==
  [][(op' \in {"UpdateEntry", "DeleteEntry"} /\ Authenticated(req'.auth))
     => \A e \in entries :
          (\A u \in UsersOf(req'.auth) : e.user_id # u.id) => e \in entries']_vars

\* The owner of a calendar called UpdateEntry, with a url whose fetch succeeded,
\* on an entry of that calendar which another user created: it has no title.
C9_Witness ==
  /\ op = "UpdateEntry" /\ res.err = "ok" /\ req.url # ""
  /\ \E e \in entries, c \in calendars, u \in UsersOf(req.auth) :
       /\ e.id = req.id /\ e.user_id # u.id
       /\ c.id = e.calendar_id /\ c.user_id = u.id
       /\ e.title = "" /\ e.url = ""

\* The entries ListEntries(userId, year) is to return.
EntriesOf(userId, year) ==
  {e \in entries :
     /\ e.user_id = userId
     /\ year # 0 => \E c \in calendars : c.id = e.calendar_id /\ c.year = year}

\* C10: ListEntries(userId, year) returns exactly the entries of user userId
\* (all of them when year is 0, else those of calendars of that year), in
\* ascending order of day.
C10_ListEntriesExact ==
  op = "ListEntries" =>
    /\ Len(res.entries) = Cardinality(EntriesOf(req.userId, req.year))
    /\ {res.entries[i].id : i \in DOMAIN res.entries} =
         {e.id : e \in EntriesOf(req.userId, req.year)}
    /\ \A i, j \in DOMAIN res.entries :
         i < j => res.entries[i].day <= res.entries[j].day


(***************************************************************************)
(* ListCalendars                                                           *)
(***************************************************************************)
\* query occurs in text as a substring.
Contains(text, query) ==
  \E i \in 0..(Len(text) - Len(query)) : SubSeq(text, i + 1, i + Len(query)) = query

\* The ids of the calendars a ListCalendars request selects, read literally.
SelectedIds(request) ==
  {c.id : c \in {x \in calendars :
                   /\ x.year = request.year
                   /\ request.userId # 0 => x.user_id = request.userId
                   /\ request.query # << >> =>
                        \/ Contains(x.title, request.query)
                        \/ Contains(x.description, request.query)}}

\* C11: ListCalendars returns exactly the calendars of the year, of the owner
\* when userId is not 0 and with the query as a substring of the title or the
\* description when the query is not empty, by descending id, and only the
\* first pageSize of them when pageSize is not 0.
C11_ListCalendarsExact ==
  op = "ListCalendars" =>
    LET ids == [i \in DOMAIN res.calendars |-> res.calendars[i].id]
        all == SelectedIds(req)
        n == Cardinality(all)
    IN /\ \A i \in DOMAIN ids : ids[i] \in all
       /\ \A i, j \in DOMAIN ids : i < j => ids[i] > ids[j]
       /\ Len(ids) = IF req.pageSize # 0 /\ req.pageSize < n THEN req.pageSize ELSE n
       /\ \A id \in all : (\A i \in DOMAIN ids : ids[i] # id) =>
                             \A i \in DOMAIN ids : id < ids[i]

\* C12: every calendar ListCalendars returns carries the number of entry rows
\* of that calendar, 0 when it has none, and an empty result runs no count
\* query: the listing query is the only one.
C12_EntryCountExact ==
  op = "ListCalendars" =>
    /\ \A i \in DOMAIN res.calendars :
         res.calendars[i].entryCount =
           Cardinality({e \in entries : e.calendar_id = res.calendars[i].id})
    /\ Len(res.calendars) = 0 => res.queries = 1

\* A listing of a calendar with an entry and of a calendar without one.
C12_Witness ==
  /\ op = "ListCalendars"
  /\ \E i, j \in DOMAIN res.calendars :
       /\ res.calendars[i].entryCount = 1
       /\ res.calendars[j].entryCount = 0
       /\ entries # {}


(***************************************************************************)
(* Concurrent SignIn calls: the service handles each RPC in a goroutine    *)
(* of its own, and SignIn runs its lookup and its write as two statements  *)
(* outside any transaction, so statements of other SignIn calls run        *)
(* between the two.                                                        *)
(***************************************************************************)
\* select id from users where auth_provider = ? and auth_uid = ?
\* The call keeps the id it has read, 0 for sql.ErrNoRows.
SignInLookup(a, name, icon) ==
  /\ calls < MaxCalls
  /\ calls' = calls + 1
  /\ \E userID \in IF SelectUserByAuth(a) = {} THEN {0}
                    ELSE {u.id : u \in SelectUserByAuth(a)} :
       signIns' = signIns \cup {[call |-> calls + 1, auth |-> a, name |-> name,
                                 icon |-> icon, userID |-> userID]}
  /\ UNCHANGED <<db, now, op, req, res>>

\* The write of a call that has done its lookup: the insert when the lookup
\* found no row, the update of the icon of the row it found otherwise.
SignInWrite(s) ==
  /\ s \in signIns
  /\ signIns' = signIns \ {s}
  /\ IF s.userID = 0
       THEN /\ users' = InsertUser(nextUserId, s.name, s.auth, s.icon)
            /\ nextUserId' = nextUserId + 1
       ELSE /\ users' = UpdateUserIcon(s.icon, s.userID)
            /\ UNCHANGED nextUserId
  /\ UNCHANGED <<calendars, entries, nextCalendarId, nextEntryId, now, calls,
                 op, req, res>>

NextConcurrent ==
  \/ \E a \in Idents, p \in Profiles : SignInLookup(a, p.Name, p.IconURL)
  \/ \E s \in signIns : SignInWrite(s)

SpecConcurrent == Init /\ [][NextConcurrent]_vars

\* C14: whatever the interleaving of SignIn calls, two concurrent calls of one
\* new identity included, there is at most one user row of each (auth
\* provider, auth UID) pair.
C14_OneUserPerIdentity ==
  \A a \in Idents : Cardinality(UsersOf(a)) <= 1

(***************************************************************************)
(* SignIn of a known identity                                              *)
(***************************************************************************)
\* C13: a SignIn of an identity that has a user row changes the icon_url of
\* that row to the verifier's and nothing else: the id, the name, the auth
\* provider and the auth UID of the row stay, every other row stays, and no
\* row is added; so a name UpdateUser has set outlives every later SignIn,
\* also one whose verifier reports another name.
C13_SignInUpdatesIconOnly ==
  [][(op' = "SignIn" /\ UsersOf(req'.auth) # {}) =>
       users' = {IF u \in UsersOf(req'.auth)
                   THEN [u EXCEPT !.icon_url = req'.icon]
                   ELSE u : u \in users}]_vars

\* A SignIn whose verifier reports a name, of an identity whose row holds the
\* name only UpdateUser sets.
C13_Witness ==
  /\ op = "SignIn"
  /\ req.name \in {"n1", "n2"}
  /\ \E u \in UsersOf(req.auth) : u.name = "n3" /\ u.icon_url = req.icon


(***************************************************************************)
(* The entries of a calendar                                               *)
(***************************************************************************)
\* The entry rows of calendar cid.
EntryRowsOf(cid) == {e \in entries : e.calendar_id = cid}

\* C15: whatever CreateEntry, UpdateEntry and DeleteEntry calls users have
\* made, a calendar has at most 25 entries and at most one entry of a day.
C15_OneEntryPerDay ==
  \A cid \in {e.calendar_id : e \in entries} :
    /\ Cardinality(EntryRowsOf(cid)) <= MaxDay - MinDay + 1
    /\ \A e1, e2 \in EntryRowsOf(cid) : e1.day = e2.day => e1 = e2

\* C16: whatever CreateEntry, DeleteEntry, CreateCalendar and DeleteCalendar
\* calls have been made, the calendar_id of every entry row is the id of a
\* calendar row that exists.
C16_EntryHasCalendar ==
  \A e \in entries : \E c \in calendars : c.id = e.calendar_id

====
